---- MODULE Spec2Model ----
(***************************************************************************)
(* The input-parsing layer of 0-shell (src/src/command_call.rs):           *)
(*   tokenize                  raw text -> shell words                     *)
(*   separate_flags_from_args  words -> (flags, args)                      *)
(*   parse_line                raw line -> sequence of CommandCall         *)
(* its dispatcher and the rm command (src/src/command.rs):                 *)
(*   CommandList::execute      (name, flags, args) -> CommandResult        *)
(*   rm_callback               (flags, args) -> CommandResult, file system *)
(* and the read-eval-print loop (src/src/main.rs).                         *)
(*                                                                         *)
(* A character is a one-element atom (a TLA+ string); a Rust String is a   *)
(* sequence of characters.  U00E9 stands for a character whose UTF-8       *)
(* encoding is two bytes long, so that String::len (a byte count) and the  *)
(* number of characters differ.                                            *)
(***************************************************************************)
EXTENDS Naturals, Sequences, FiniteSets

VARIABLES
    pc,               \* position of the running function
    input,            \* the argument of the function under examination
    chars,            \* tokenize: the rest of the `chars` iterator
    tokens,           \* tokenize: `tokens`
    current,          \* tokenize: `current`
    in_single_quote,  \* tokenize: `in_single_quote`
    in_double_quote,  \* tokenize: `in_double_quote`
    escaped,          \* tokenize: `escaped`
    rest,             \* separate_flags_from_args: tokens the for loop has yet to visit
    flags,            \* separate_flags_from_args: `flags`
    args,             \* separate_flags_from_args: `args`
    chunks,           \* parse_line: pieces of the split the filter_map has yet to visit
    calls,            \* parse_line: the calls collected so far
    result,           \* execute, rm_callback, main: the CommandResult at hand
    invoked,          \* execute: names of the commands whose callback has run
    fs,               \* rm_callback: the file system, path -> kind of entry
    paths,            \* rm_callback: arguments the for loop has yet to visit
    pending,          \* main: calls of the line the for loop has yet to dispatch
    events,           \* main: what the loop did since it last wrote the prompt
    lines_read        \* main: number of read_line calls made

vars == <<pc, input, chars, tokens, current, in_single_quote, in_double_quote,
          escaped, rest, flags, args, chunks, calls, result, invoked, fs,
          paths, pending, events, lines_read>>

tokVars == <<chars, tokens, current, in_single_quote, in_double_quote, escaped>>
sepVars == <<rest, flags, args>>
lineVars == <<chunks, calls>>
execVars == <<result, invoked>>
rmVars == <<fs, paths>>
replVars == <<pending, events, lines_read>>
cmdVars == <<execVars, rmVars, replVars>>

----------------------------------------------------------------------------
(* Characters *)

SP == " "
TAB == "\t"
NL == "\n"
SQ == "'"
DQ == "\""
BS == "\\"
DOLLAR == "$"
SEMI == ";"
DASH == "-"
U00E9 == "U+00E9"

\* char::is_whitespace, on the characters of the model
is_whitespace(c) == c \in {SP, TAB, NL}

\* char::len_utf8: the bytes a character takes in a String
len_utf8(c) == IF c = U00E9 THEN 2 ELSE 1

RECURSIVE len(_)
\* String::len: the length in bytes
len(s) == IF s = <<>> THEN 0 ELSE len_utf8(Head(s)) + len(Tail(s))

\* char::to_lowercase, on the characters of the model
char_to_lowercase(c) == IF c = "A" THEN "a" ELSE IF c = "B" THEN "b" ELSE c

\* str::to_lowercase
to_lowercase(s) == [i \in 1..Len(s) |-> char_to_lowercase(s[i])]

\* str::starts_with
starts_with(s, p) == Len(s) >= Len(p) /\ SubSeq(s, 1, Len(p)) = p

RECURSIVE trim_start(_)
trim_start(s) ==
    IF s # <<>> /\ is_whitespace(Head(s)) THEN trim_start(Tail(s)) ELSE s

RECURSIVE trim_end(_)
trim_end(s) ==
    IF s # <<>> /\ is_whitespace(s[Len(s)])
    THEN trim_end(SubSeq(s, 1, Len(s) - 1))
    ELSE s

\* str::trim
trim(s) == trim_end(trim_start(s))

----------------------------------------------------------------------------
(* tokenize *)

\* Faulty variant: the backslash is dropped before every character, also in double quotes
handle_escape_drop(c, dq) == <<c>>

\* Faulty variant: the backslash is kept before every character, also outside quotes
handle_escape_keep(c, dq) == <<BS, c>>

\* handle_escape: the text an escaped character contributes
handle_escape(c, dq) ==
    IF dq
    THEN IF c \in {DQ, BS, DOLLAR} THEN <<c>> ELSE <<BS, c>>
    ELSE <<c>>

\* Faulty variant: the emptiness test is missing
push_current_always(toks, cur) == Append(toks, cur)

\* `if !current.is_empty() { tokens.push(current) }`
push_current(toks, cur) == IF cur # <<>> THEN Append(toks, cur) ELSE toks

\* The locals of tokenize before the loop
scan_init ==
    [tokens |-> <<>>, current |-> <<>>, in_single_quote |-> FALSE,
     in_double_quote |-> FALSE, escaped |-> FALSE]

\* Faulty variant: a backslash starts an escape inside single quotes too
starts_escape_anywhere(s, c) == c = BS

\* The match guard `'\\' if !in_single_quote`
starts_escape(s, c) == c = BS /\ ~s.in_single_quote

\* Faulty variant: a single quote toggles inside double quotes too
toggles_single_anywhere(s, c) == c = SQ

\* The match guard `'\'' if !in_double_quote`
toggles_single(s, c) == c = SQ /\ ~s.in_double_quote

\* The match guard `'"' if !in_single_quote`
toggles_double(s, c) == c = DQ /\ ~s.in_single_quote

\* The match guard `c if c.is_whitespace() && !in_single_quote && !in_double_quote`
ends_word(s, c) ==
    is_whitespace(c) /\ ~s.in_single_quote /\ ~s.in_double_quote

\* One iteration of `while let Some(c) = chars.next()`
scan_char(s, c) ==
    IF s.escaped
    THEN [s EXCEPT !.current = @ \o handle_escape(c, s.in_double_quote),
                   !.escaped = FALSE]
    ELSE IF starts_escape(s, c)
    THEN [s EXCEPT !.escaped = TRUE]
    ELSE IF toggles_single(s, c)
    THEN [s EXCEPT !.in_single_quote = ~@]
    ELSE IF toggles_double(s, c)
    THEN [s EXCEPT !.in_double_quote = ~@]
    ELSE IF ends_word(s, c)
    THEN [s EXCEPT !.tokens = push_current(s.tokens, s.current),
                   !.current = <<>>]
    ELSE [s EXCEPT !.current = Append(@, c)]

RECURSIVE scan_all(_, _)
\* The whole loop, from state s over the characters cs
scan_all(s, cs) ==
    IF cs = <<>> THEN s ELSE scan_all(scan_char(s, Head(cs)), Tail(cs))

\* tokenize as a function: the loop, then the push of the final token
tokenize(text) ==
    LET s == scan_all(scan_init, text) IN push_current(s.tokens, s.current)

\* The locals of the running tokenize, as one record
scan == [tokens |-> tokens, current |-> current,
         in_single_quote |-> in_single_quote,
         in_double_quote |-> in_double_quote, escaped |-> escaped]

----------------------------------------------------------------------------
(* Bounds and input domains *)

MaxLen == 5

TokChars == {SP, TAB, SQ, DQ, BS, DOLLAR, "a", "b"}

Strings(alphabet, n) == UNION {[1..k -> alphabet] : k \in 0..n}

----------------------------------------------------------------------------
(* tokenize, step by step *)

IdleSep == rest = <<>> /\ flags = <<>> /\ args = <<>>
IdleLine == chunks = <<>> /\ calls = <<>>

\* CommandResult::new (command.rs): empty output, nothing to exit
CommandResult_new == [stdout |-> <<>>, stderr |-> <<>>, should_exit |-> FALSE]

IdleExec == result = CommandResult_new /\ invoked = <<>>
IdleRm == fs = <<>> /\ paths = <<>>
IdleRepl == pending = <<>> /\ events = <<>> /\ lines_read = 0

InitTokenize ==
    /\ input \in Strings(TokChars, MaxLen)
    /\ pc = "tok_scan"
    /\ chars = input
    /\ tokens = scan_init.tokens
    /\ current = scan_init.current
    /\ in_single_quote = scan_init.in_single_quote
    /\ in_double_quote = scan_init.in_double_quote
    /\ escaped = scan_init.escaped
    /\ IdleSep
    /\ IdleLine
    /\ IdleExec /\ IdleRm /\ IdleRepl

\* One iteration of the while loop
ScanChar ==
    /\ pc = "tok_scan"
    /\ chars # <<>>
    /\ LET s == scan_char(scan, Head(chars)) IN
        /\ tokens' = s.tokens
        /\ current' = s.current
        /\ in_single_quote' = s.in_single_quote
        /\ in_double_quote' = s.in_double_quote
        /\ escaped' = s.escaped
    /\ chars' = Tail(chars)
    /\ UNCHANGED <<pc, input, sepVars, lineVars, cmdVars>>

\* The iterator is exhausted: push the final token and return `tokens`
ScanEnd ==
    /\ pc = "tok_scan"
    /\ chars = <<>>
    /\ tokens' = push_current(tokens, current)
    /\ pc' = "tok_done"
    /\ UNCHANGED <<input, chars, current, in_single_quote, in_double_quote,
                   escaped, sepVars, lineVars, cmdVars>>

NextTokenize == ScanChar \/ ScanEnd

SpecTokenize == InitTokenize /\ [][NextTokenize]_vars

----------------------------------------------------------------------------
(* Claims about tokenize (checked under SpecTokenize) *)

\* The text has none of the characters of set
HasNone(s, set) == \A i \in 1..Len(s) : s[i] \notin set

\* The indices where a maximal run of non-whitespace characters starts
FieldStarts(s) ==
    {i \in 1..Len(s) :
        ~is_whitespace(s[i]) /\ (i = 1 \/ is_whitespace(s[i - 1]))}

\* The index where the run of non-whitespace characters starting at i ends
FieldEnd(s, i) ==
    CHOOSE j \in i..Len(s) :
        /\ \A k \in i..j : ~is_whitespace(s[k])
        /\ (j = Len(s) \/ is_whitespace(s[j + 1]))

\* The maximal runs of non-whitespace characters of s, in order
SplitWhitespace(s) ==
    LET st == FieldStarts(s)
        nth(k) == CHOOSE i \in st : Cardinality({x \in st : x <= i}) = k
    IN [k \in 1..Cardinality(st) |-> SubSeq(s, nth(k), FieldEnd(s, nth(k)))]

\* C1: for an input with no single quote, no double quote and no backslash,
\* tokenize returns exactly the maximal non-whitespace runs of the input, in
\* order.
C1_PlainInputSplitsOnWhitespace ==
    (pc = "tok_done" /\ HasNone(input, {SQ, DQ, BS}))
        => tokens = SplitWhitespace(input)

\* C1 witness: a plain input with a run of two whitespace characters between
\* two words was tokenized into the two words.
C1_Witness ==
    /\ pc = "tok_done"
    /\ input = <<"a", SP, SP, "b">>
    /\ tokens = << <<"a">>, <<"b">> >>

\* The character the loop is about to read
NextChar == Head(chars)

\* The step leaves the quote modes and the completed words as they are
KeepsModesAndTokens ==
    /\ in_single_quote' = in_single_quote
    /\ in_double_quote' = in_double_quote
    /\ tokens' = tokens

\* C2: inside double quotes a backslash is held back (nothing is appended);
\* followed by a double quote, a backslash or a dollar it contributes that
\* character alone, and the double quote does not close the quote; followed by
\* any other character it contributes the backslash and the character.
C2_EscapeInsideDoubleQuotes ==
    [][(pc = "tok_scan" /\ chars # <<>> /\ in_double_quote) =>
        /\ (~escaped /\ NextChar = BS) =>
                (escaped' /\ current' = current /\ KeepsModesAndTokens)
        /\ (escaped /\ NextChar \in {DQ, BS, DOLLAR}) =>
                (/\ current' = Append(current, NextChar)
                 /\ ~escaped'
                 /\ KeepsModesAndTokens)
        /\ (escaped /\ NextChar \notin {DQ, BS, DOLLAR}) =>
                (/\ current' = current \o <<BS, NextChar>>
                 /\ ~escaped'
                 /\ KeepsModesAndTokens)
      ]_vars

\* C2 witness: an escaped double quote inside double quotes became part of
\* the word and the quote stayed open for the next character.
C2_Witness ==
    /\ pc = "tok_done"
    /\ input = <<DQ, BS, DQ, "a">>
    /\ tokens = << <<DQ, "a">> >>
    /\ in_double_quote

\* C3: outside both quote modes a backslash is dropped and the character after
\* it, whatever it is, is appended to the current word and does nothing else:
\* it ends no word, toggles no quote mode and starts no escape.
C3_EscapeOutsideQuotes ==
    [][(pc = "tok_scan" /\ chars # <<>> /\ ~in_single_quote /\ ~in_double_quote) =>
        /\ (~escaped /\ NextChar = BS) =>
                (escaped' /\ current' = current /\ KeepsModesAndTokens)
        /\ escaped =>
                (/\ current' = Append(current, NextChar)
                 /\ ~escaped'
                 /\ KeepsModesAndTokens)
      ]_vars

\* C3 witness: an escaped space outside quotes did not split the word.
C3_Witness ==
    /\ pc = "tok_done"
    /\ input = <<"a", BS, SP, "b">>
    /\ tokens = << <<"a", SP, "b">> >>

\* C4: in single-quote mode the escaped flag is not set, every character other
\* than a single quote is appended verbatim and changes no mode, and a single
\* quote leaves the mode.
C4_SingleQuoteIsLiteral ==
    [][(pc = "tok_scan" /\ in_single_quote) =>
        /\ ~escaped
        /\ (chars # <<>> /\ NextChar # SQ) =>
                (/\ current' = Append(current, NextChar)
                 /\ ~escaped'
                 /\ KeepsModesAndTokens)
        /\ (chars # <<>> /\ NextChar = SQ) =>
                (/\ ~in_single_quote'
                 /\ current' = current
                 /\ ~escaped'
                 /\ in_double_quote' = in_double_quote
                 /\ tokens' = tokens)
      ]_vars

\* C4 witness: a backslash, a double quote and a space after an opening single
\* quote were all copied into the word.
C4_Witness ==
    /\ pc = "tok_done"
    /\ input = <<SQ, BS, DQ, SP>>
    /\ tokens = << <<BS, DQ, SP>> >>
    /\ in_single_quote

\* The two quote modes exclude each other, and escaped excludes single-quote mode
ModesExclusive ==
    /\ ~(in_single_quote /\ in_double_quote)
    /\ ~(escaped /\ in_single_quote)

\* C5: at every step of the scan the two quote modes are never both on and
\* escaped is never on in single-quote mode; a single quote read in
\* double-quote mode and a double quote read in single-quote mode are appended
\* as literal characters and toggle nothing.
C5_QuoteModesExclusive ==
    [][/\ ModesExclusive
       /\ ModesExclusive'
       /\ (pc = "tok_scan" /\ chars # <<>> /\ ~escaped) =>
            /\ (in_double_quote /\ NextChar = SQ) =>
                    (/\ current' = Append(current, SQ)
                     /\ ~escaped'
                     /\ KeepsModesAndTokens)
            /\ (in_single_quote /\ NextChar = DQ) =>
                    (/\ current' = Append(current, DQ)
                     /\ ~escaped'
                     /\ KeepsModesAndTokens)
      ]_vars

\* C5 witness: a single quote between double quotes came out as a one-character
\* word.
C5_Witness ==
    /\ pc = "tok_done"
    /\ input = <<DQ, SQ, DQ>>
    /\ tokens = << <<SQ>> >>
    /\ ~in_single_quote

\* The input without its last character
Front(s) == SubSeq(s, 1, Len(s) - 1)

\* C6: tokenize always finishes, after reading each character once: it is
\* never stuck before its return; every iteration consumes exactly the next
\* character; at the end of the input, also inside an open quote or after an
\* unresolved backslash, it returns the completed words followed by the word
\* under construction if that word is non-empty; and a trailing unresolved
\* backslash contributes nothing (the result is that of the input without it).
C6_LenientEndOfInput ==
    /\ [](pc = "tok_done" \/ ENABLED NextTokenize)
    /\ [][/\ (pc = "tok_scan" /\ chars # <<>>) =>
                (pc' = "tok_scan" /\ chars' = Tail(chars))
          /\ (pc = "tok_scan" /\ chars = <<>>) =>
                /\ pc' = "tok_done"
                /\ tokens' = IF current = <<>> THEN tokens
                             ELSE Append(tokens, current)
                /\ escaped => tokens' = tokenize(Front(input))
         ]_vars

\* C6 witness: the input ended inside an open double quote right after a
\* backslash, and the word under construction was returned without the
\* backslash.
C6_Witness ==
    /\ pc = "tok_done"
    /\ input = <<"a", SP, DQ, BS>>
    /\ in_double_quote
    /\ escaped
    /\ tokens = << <<"a">> >>

----------------------------------------------------------------------------
(* separate_flags_from_args *)

\* `for c in token.chars().skip(1) { flags.push(format!("-{}", c)) }`
expand_short(token) == [i \in 1..(Len(token) - 1) |-> <<DASH, token[i + 1]>>]

\* The locals of separate_flags_from_args before the loop
sep_init == [flags |-> <<>>, args |-> <<>>]

\* Faulty variant: the lone dash is not excepted
is_flag_any_dash(token) == starts_with(token, <<DASH>>)

\* `token.starts_with('-') && token != "-"`
is_flag(token) == starts_with(token, <<DASH>>) /\ token # <<DASH>>

\* Faulty variant: long flags are not excepted
is_short_cluster_any(token) == len(token) > 2

\* `token.len() > 2 && !token.starts_with("--")`
is_short_cluster(token) ==
    len(token) > 2 /\ ~starts_with(token, <<DASH, DASH>>)

\* One iteration of `for token in tokens`
separate_token(fa, token) ==
    IF is_flag(token)
    THEN IF is_short_cluster(token)
         THEN [fa EXCEPT !.flags = @ \o expand_short(token)]
         ELSE [fa EXCEPT !.flags = Append(@, token)]
    ELSE [fa EXCEPT !.args = Append(@, token)]

RECURSIVE separate_loop(_, _)
separate_loop(fa, toks) ==
    IF toks = <<>> THEN fa
    ELSE separate_loop(separate_token(fa, Head(toks)), Tail(toks))

\* separate_flags_from_args as a function
separate_flags_from_args(toks) == separate_loop(sep_init, toks)

MaxTotal == 6

FlagChars == {DASH, "a", U00E9}

\* The text s cut into words after the positions of cuts
Pieces(s, cuts) ==
    LET ends == (cuts \cap (1..(Len(s) - 1))) \cup {Len(s)}
        kth(k) == CHOOSE e \in ends : Cardinality({x \in ends : x <= e}) = k
        start(k) == IF k = 1 THEN 1 ELSE kth(k - 1) + 1
    IN [k \in 1..Cardinality(ends) |-> SubSeq(s, start(k), kth(k))]

\* Every sequence of non-empty words of at most MaxTotal characters in all
TokenLists ==
    {<<>>} \cup
    {Pieces(s, cuts) : s \in Strings(FlagChars, MaxTotal) \ {<<>>},
                       cuts \in SUBSET (1..(MaxTotal - 1))}

IdleTok ==
    /\ chars = <<>>
    /\ tokens = <<>>
    /\ current = <<>>
    /\ in_single_quote = FALSE
    /\ in_double_quote = FALSE
    /\ escaped = FALSE

InitSeparate ==
    /\ input \in TokenLists
    /\ pc = "sep_loop"
    /\ rest = input
    /\ flags = sep_init.flags
    /\ args = sep_init.args
    /\ IdleTok
    /\ IdleLine
    /\ IdleExec /\ IdleRm /\ IdleRepl

\* One iteration of the for loop
SeparateToken ==
    /\ pc = "sep_loop"
    /\ rest # <<>>
    /\ LET fa == separate_token([flags |-> flags, args |-> args], Head(rest)) IN
        /\ flags' = fa.flags
        /\ args' = fa.args
    /\ rest' = Tail(rest)
    /\ UNCHANGED <<pc, input, tokVars, lineVars, cmdVars>>

\* The loop is over: return (flags, args)
SeparateReturn ==
    /\ pc = "sep_loop"
    /\ rest = <<>>
    /\ pc' = "sep_done"
    /\ UNCHANGED <<input, tokVars, sepVars, lineVars, cmdVars>>

NextSeparate == SeparateToken \/ SeparateReturn

SpecSeparate == InitSeparate /\ [][NextSeparate]_vars

----------------------------------------------------------------------------
(* parse_line *)

\* Faulty variant: an occurrence right after a backslash is passed over
find_unescaped(s, sep) ==
    LET hit(i) == s[i] = sep /\ (i = 1 \/ s[i - 1] # BS) IN
    IF \E i \in 1..Len(s) : hit(i)
    THEN CHOOSE i \in 1..Len(s) : hit(i) /\ \A j \in 1..(i - 1) : ~hit(j)
    ELSE 0

\* The least index of s that holds sep, or 0
find(s, sep) ==
    IF \E i \in 1..Len(s) : s[i] = sep
    THEN CHOOSE i \in 1..Len(s) : s[i] = sep /\ \A j \in 1..(i - 1) : s[j] # sep
    ELSE 0

RECURSIVE split(_, _)
\* str::split on one character: the pieces between its occurrences
split(s, sep) ==
    LET i == find(s, sep) IN
    IF i = 0 THEN <<s>>
    ELSE <<SubSeq(s, 1, i - 1)>> \o split(SubSeq(s, i + 1, Len(s)), sep)

\* Faulty variant: the name is taken as written
call_name_raw(toks) == Head(toks)

\* `tokens.remove(0).to_lowercase()`: the command name
call_name(toks) == to_lowercase(Head(toks))

\* Faulty variant: the test for no tokens is missing
no_tokens_unchecked(toks) == FALSE

\* `if tokens.is_empty() { return None; }`
no_tokens(toks) == toks = <<>>

\* What the closure of filter_map makes of a chunk: `some` holds no call
\* (None) or one call (Some); `panicked` is set when `tokens.remove(0)` is
\* reached with no token, where Vec::remove panics
NoCall == [panicked |-> FALSE, some |-> <<>>]
Panicked == [panicked |-> TRUE, some |-> <<>>]
SomeCall(call) == [panicked |-> FALSE, some |-> <<call>>]

\* The closure of filter_map
chunk_call(piece) ==
    LET chunk == trim(piece) IN
    IF chunk = <<>> THEN NoCall
    ELSE LET toks == tokenize(chunk) IN
         IF no_tokens(toks) THEN NoCall
         ELSE IF toks = <<>> THEN Panicked
         ELSE LET fa == separate_flags_from_args(Tail(toks)) IN
              SomeCall([name |-> call_name(toks),
                        flags |-> fa.flags, args |-> fa.args])

RECURSIVE filter_map_calls(_)
\* `.filter_map(..).collect()`: the calls of the pieces, in order, unless a
\* piece made the closure panic
filter_map_calls(pieces) ==
    IF pieces = <<>> THEN NoCall
    ELSE LET first == chunk_call(Head(pieces)) IN
         IF first.panicked THEN Panicked
         ELSE LET others == filter_map_calls(Tail(pieces)) IN
              IF others.panicked THEN Panicked
              ELSE [panicked |-> FALSE, some |-> first.some \o others.some]

\* parse_line as a function
parse_line(line) == filter_map_calls(split(line, SEMI))

MaxLineLen == 5

LineChars == {SP, SEMI, SQ, DQ, BS, DASH, "a", "A"}

InitParseLine ==
    /\ input \in Strings(LineChars, MaxLineLen)
    /\ pc = "parse_split"
    /\ chunks = <<>>
    /\ calls = <<>>
    /\ IdleTok
    /\ IdleSep
    /\ IdleExec /\ IdleRm /\ IdleRepl

\* `input.split(';')`
ParseSplit ==
    /\ pc = "parse_split"
    /\ chunks' = split(input, SEMI)
    /\ pc' = "parse_chunk"
    /\ UNCHANGED <<input, calls, tokVars, sepVars, cmdVars>>

\* The filter_map closure on the next piece
ParseChunk ==
    /\ pc = "parse_chunk"
    /\ chunks # <<>>
    /\ LET made == chunk_call(Head(chunks)) IN
        /\ pc' = IF made.panicked THEN "parse_panic" ELSE pc
        /\ calls' = calls \o made.some
    /\ chunks' = Tail(chunks)
    /\ UNCHANGED <<input, tokVars, sepVars, cmdVars>>

\* `.collect()`: every piece was visited, the calls are returned
ParseCollect ==
    /\ pc = "parse_chunk"
    /\ chunks = <<>>
    /\ pc' = "parse_done"
    /\ UNCHANGED <<input, calls, chunks, tokVars, sepVars, cmdVars>>

NextParseLine == ParseSplit \/ ParseChunk \/ ParseCollect

SpecParseLine == InitParseLine /\ [][NextParseLine]_vars

----------------------------------------------------------------------------
(* The classification of words, stated on characters (checked under         *)
(* SpecSeparate)                                                            *)

\* A word that begins with a dash and is not the lone dash
DashWord(w) == w # <<>> /\ w[1] = DASH /\ w # <<DASH>>

\* The flags a dash word stands for: itself when it has two characters or
\* begins with two dashes, else one dash-and-character entry per character
\* after the dash
FlagEntries(w) ==
    IF Len(w) = 2 \/ (Len(w) >= 2 /\ w[2] = DASH)
    THEN <<w>>
    ELSE [i \in 1..(Len(w) - 1) |-> <<DASH, w[i + 1]>>]

RECURSIVE FlagsOf(_)
\* The flag entries of the dash words of ws, in order
FlagsOf(ws) ==
    IF ws = <<>> THEN <<>>
    ELSE (IF DashWord(Head(ws)) THEN FlagEntries(Head(ws)) ELSE <<>>)
            \o FlagsOf(Tail(ws))

\* The other words of ws, in order
ArgsOf(ws) == SelectSeq(ws, LAMBDA w : ~DashWord(w))

\* C10: separate_flags_from_args puts every word into exactly one of flags
\* and args and keeps the order in each: words without a leading dash and the
\* lone dash go to args unchanged, two-character dash words and words that
\* begin with two dashes go to flags unchanged, and a longer word with one
\* leading dash becomes one dash-and-character flag per character after the
\* dash, duplicates kept.
C10_FlagsAndArgsSeparated ==
    pc = "sep_done" => (flags = FlagsOf(input) /\ args = ArgsOf(input))

\* C10 witness: a cluster with a repeated two-byte letter, a plain word and a
\* lone dash were separated.
C10_Witness ==
    /\ pc = "sep_done"
    /\ input = << <<DASH, U00E9, U00E9>>, <<"a">>, <<DASH>> >>
    /\ flags = << <<DASH, U00E9>>, <<DASH, U00E9>> >>
    /\ args = << <<"a">>, <<DASH>> >>

----------------------------------------------------------------------------
(* Claims about parse_line (checked under SpecParseLine) *)

\* The positions of the separator in the line, with both ends of the line
Cuts(s) == {0, Len(s) + 1} \cup {i \in 1..Len(s) : s[i] = SEMI}

\* The number of pieces the separators cut the line into
NumPieces(s) == Cardinality(Cuts(s)) - 1

\* The k-th cut of the line, from the left
NthCut(s, k) ==
    LET cuts == Cuts(s) IN
    CHOOSE p \in cuts : Cardinality({x \in cuts : x < p}) = k - 1

\* The text between the k-th cut and the next
PieceAt(s, k) == SubSeq(s, NthCut(s, k) + 1, NthCut(s, k + 1) - 1)

\* The words of a piece: those of the trimmed piece, scanned from a fresh state
WordsOf(piece) == tokenize(trim(piece))

\* The pieces of the line that have at least one word
LivePieces(s) == {k \in 1..NumPieces(s) : WordsOf(PieceAt(s, k)) # <<>>}

\* The i-th piece of the line that has a word
NthLive(s, i) ==
    LET live == LivePieces(s) IN
    CHOOSE k \in live : Cardinality({x \in live : x <= k}) = i

\* name is the text w with its capital letters replaced by the small ones
LowercaseOf(name, w) ==
    /\ Len(name) = Len(w)
    /\ \A j \in 1..Len(w) :
        /\ name[j] \notin {"A", "B"}
        /\ (name[j] = w[j]
            \/ (w[j] = "A" /\ name[j] = "a")
            \/ (w[j] = "B" /\ name[j] = "b"))

\* C7: every call collected by parse_line has a non-empty name, which is the
\* lowercase form of the first word of its chunk; its flags and args are the
\* classification of the remaining words as written, not case-normalized.
C7_NameIsLowercasedFirstWord ==
    \A i \in 1..Len(calls) :
        LET w == WordsOf(PieceAt(input, NthLive(input, i))) IN
        /\ calls[i].name # <<>>
        /\ LowercaseOf(calls[i].name, Head(w))
        /\ calls[i].flags = FlagsOf(Tail(w))
        /\ calls[i].args = ArgsOf(Tail(w))

\* C7 witness: a call whose name was written in capitals and whose flag kept
\* its capital.
C7_Witness ==
    /\ pc = "parse_done"
    /\ input = <<"A", SP, DASH, "A">>
    /\ calls = <<[name |-> <<"a">>, flags |-> << <<DASH, "A">> >>,
                  args |-> <<>>]>>

\* The call of a piece, if it has a word
FreshCall(piece) ==
    LET w == WordsOf(piece) IN
    IF w = <<>> THEN <<>>
    ELSE <<[name |-> to_lowercase(Head(w)),
            flags |-> separate_flags_from_args(Tail(w)).flags,
            args |-> separate_flags_from_args(Tail(w)).args]>>

\* C8: parse_line cuts the line at every ';' before any tokenization, whether
\* the ';' stands in single quotes, in double quotes or after a backslash; and
\* each piece is then tokenized on its own, from a fresh quote and escape
\* state.
C8_NaiveSplitOnSemicolon ==
    [][/\ pc = "parse_split" =>
            /\ Len(chunks') = NumPieces(input)
            /\ \A k \in 1..NumPieces(input) : chunks'[k] = PieceAt(input, k)
       /\ (pc = "parse_chunk" /\ chunks # <<>>) =>
            /\ HasNone(Head(chunks), {SEMI})
            /\ calls' = calls \o FreshCall(Head(chunks))
            /\ chunks' = Tail(chunks)
      ]_vars

\* C8 witness: a ';' inside single quotes ended a chunk, and the quote opened
\* in the first chunk was not open in the second.
C8_Witness ==
    /\ pc = "parse_done"
    /\ input = <<SQ, "a", SEMI, "a", SQ>>
    /\ calls = <<[name |-> <<"a">>, flags |-> <<>>, args |-> <<>>],
                 [name |-> <<"a">>, flags |-> <<>>, args |-> <<>>]>>

\* C9: parse_line never fails; it returns one call for each chunk that has a
\* word, in the order of the chunks, and none for a chunk that is empty, only
\* whitespace or without words: so the empty line and a line of ';' alone
\* return no call, and there are at most as many calls as ';' plus one.
C9_OneCallPerLiveChunk ==
    /\ pc # "parse_panic"
    /\ Len(calls) <= NumPieces(input)
    /\ pc = "parse_done" =>
        /\ Len(calls) = Cardinality(LivePieces(input))
        /\ \A i \in 1..Len(calls) :
            <<calls[i]>> = FreshCall(PieceAt(input, NthLive(input, i)))
        /\ \A k \in 1..NumPieces(input) :
            HasNone(PieceAt(input, k), LineChars \ {SP}) => k \notin LivePieces(input)
        /\ HasNone(input, LineChars \ {SEMI}) => calls = <<>>

\* C9 witness: of three chunks, the empty one gave no call and the other two
\* gave one call each, in order.
C9_Witness ==
    /\ pc = "parse_done"
    /\ input = <<DASH, SEMI, SEMI, SP, "a">>
    /\ calls = <<[name |-> <<DASH>>, flags |-> <<>>, args |-> <<>>],
                 [name |-> <<"a">>, flags |-> <<>>, args |-> <<>>]>>

----------------------------------------------------------------------------
(* C11: shape of the flags and args of every returned call *)

\* A flag as the callbacks receive it: a dash followed by exactly one
\* character, or a word that begins with two dashes
FlagShaped(f) ==
    /\ starts_with(f, <<DASH>>)
    /\ f # <<DASH>>
    /\ Len(f) = 2 \/ starts_with(f, <<DASH, DASH>>)

\* An operand: no leading dash, except for the lone dash
ArgShaped(a) == starts_with(a, <<DASH>>) => a = <<DASH>>

\* C11: in every call parse_line has collected, every element of flags begins
\* with a dash, is not the lone dash, and is a dash plus one character or
\* begins with two dashes; and no element of args begins with a dash except
\* the lone dash.
C11_FlagAndArgShapes ==
    \A i \in 1..Len(calls) :
        /\ \A j \in 1..Len(calls[i].flags) : FlagShaped(calls[i].flags[j])
        /\ \A j \in 1..Len(calls[i].args) : ArgShaped(calls[i].args[j])

\* `a -aA`: the cluster arrives as the two flags -a and -A
C11_Witness ==
    /\ pc = "parse_done"
    /\ input = <<"a", SP, DASH, "a", "A">>
    /\ Len(calls) = 1
    /\ calls[1].flags = << <<DASH, "a">>, <<DASH, "A">> >>
    /\ calls[1].args = <<>>

----------------------------------------------------------------------------
(* C12: a word survives being wrapped in single quotes *)

\* The text `'w'`
SingleQuoted(w) == <<SQ>> \o w \o <<SQ>>

\* C12: every word w returned by tokenize that contains no single quote is
\* read back unchanged from its single-quoted form: tokenize('w') = [w].
C12_SingleQuoteRoundTrip ==
    pc = "tok_done" =>
        \A i \in 1..Len(tokens) :
            HasNone(tokens[i], {SQ}) =>
                tokenize(SingleQuoted(tokens[i])) = <<tokens[i]>>

\* `a\ \\` yields the word "a \", and `'a \'` yields it again
C12_Witness ==
    /\ pc = "tok_done"
    /\ input = <<"a", BS, SP, BS, BS>>
    /\ tokens = << <<"a", SP, BS>> >>
    /\ tokenize(<<SQ, "a", SP, BS, SQ>>) = tokens

----------------------------------------------------------------------------
(* C16: no empty word *)

\* The text with its unquoted, unescaped whitespace and its empty quote pairs
\* `''` and `""` left out is empty: whitespace and empty quoted strings only
RECURSIVE OnlyBlanksAndEmptyQuotes(_)
OnlyBlanksAndEmptyQuotes(s) ==
    IF s = <<>> THEN TRUE
    ELSE IF is_whitespace(s[1]) THEN OnlyBlanksAndEmptyQuotes(Tail(s))
    ELSE IF Len(s) >= 2 /\ s[1] \in {SQ, DQ} /\ s[2] = s[1]
         THEN OnlyBlanksAndEmptyQuotes(Tail(Tail(s)))
    ELSE FALSE

\* C16: no word of tokenize is the empty string, at any point of the scan;
\* an input made of whitespace and empty quoted strings only returns no word;
\* and words are separated by whitespace only, so the result never has more
\* words than the input has maximal runs of non-whitespace characters (a
\* quoted segment touching an unquoted one starts no new word).
C16_NoEmptyWord ==
    /\ \A i \in 1..Len(tokens) : tokens[i] # <<>>
    /\ pc = "tok_done" =>
        /\ OnlyBlanksAndEmptyQuotes(input) => tokens = <<>>
        /\ Len(tokens) <= Cardinality(FieldStarts(input))

\* `'' ""`: two empty quoted strings standing alone, and no word
C16_Witness ==
    /\ pc = "tok_done"
    /\ input = <<SQ, SQ, SP, DQ, DQ>>
    /\ tokens = <<>>

----------------------------------------------------------------------------
(* C18: a quoted or escaped dash still makes a flag *)

\* Position k of the text holds a quote or a backslash that opens a word and
\* is followed by a dash and an ordinary character: everything before k is
\* plain text ending in a blank, so the word written at k is, once the quote
\* or backslash is removed, a word that begins with `-` and is longer
MaskedDashAt(p, k) ==
    /\ k >= 2 /\ k + 2 <= Len(p)
    /\ HasNone(SubSeq(p, 1, k - 1), {SQ, DQ, BS})
    /\ is_whitespace(p[k - 1])
    /\ p[k] \in {SQ, DQ, BS}
    /\ p[k + 1] = DASH
    /\ p[k + 2] \notin {SP, TAB, SQ, DQ, BS}

\* C18: for every call, a word of its chunk written with its dash inside
\* quotes or after a backslash is found in flags (a flag made of the dash and
\* the character that follows it is present); and the args are exactly as
\* many as the words after the name that do not begin with a dash or are the
\* lone dash, counted after quote and escape removal.
C18_QuotedDashIsStillAFlag ==
    \A i \in 1..Len(calls) :
        LET p == trim(PieceAt(input, NthLive(input, i)))
            w == tokenize(p)
        IN  /\ \A k \in 1..Len(p) :
                MaskedDashAt(p, k) =>
                    \E j \in 1..Len(calls[i].flags) :
                        /\ Len(calls[i].flags[j]) >= 2
                        /\ calls[i].flags[j][1] = DASH
                        /\ calls[i].flags[j][2] = p[k + 2]
            /\ Len(calls[i].args) =
                   Cardinality({j \in 2..Len(w) : ~DashWord(w[j])})

\* `a \-a`: the escaped dash word is the flag -a, and there is no arg
C18_Witness ==
    /\ pc = "parse_done"
    /\ input = <<"a", SP, BS, DASH, "a">>
    /\ MaskedDashAt(input, 3)
    /\ calls = <<[name |-> <<"a">>, flags |-> << <<DASH, "a">> >>,
                  args |-> <<>>]>>

----------------------------------------------------------------------------
(* C17: trimming a chunk against the words of the chunk as written *)

\* The call classified from the words of the chunk as written, not trimmed
UntrimmedCall(piece) ==
    LET w == tokenize(piece) IN
    IF w = <<>> THEN <<>>
    ELSE <<[name |-> to_lowercase(Head(w)),
            flags |-> FlagsOf(Tail(w)),
            args |-> ArgsOf(Tail(w))]>>

\* The calls of the pieces k, k + 1, ... of the line, each taken untrimmed
RECURSIVE UntrimmedCallsFrom(_, _)
UntrimmedCallsFrom(s, k) ==
    IF k > NumPieces(s) THEN <<>>
    ELSE UntrimmedCall(PieceAt(s, k)) \o UntrimmedCallsFrom(s, k + 1)

\* C17: the calls parse_line returns are, chunk by chunk, the classification
\* of the words of the untrimmed chunk: trimming changes no word, also when
\* the chunk ends with an escaped blank or with a blank inside an open quote.
C17_TrimmingKeepsWords ==
    pc = "parse_done" => calls = UntrimmedCallsFrom(input, 1)

----------------------------------------------------------------------------
(* CommandResult and the command registry (command.rs) *)

\* A text is a sequence of characters and of fixed phrases; only its
\* emptiness and its parts matter here

\* CommandResult::with_stdout
CommandResult_with_stdout(text) ==
    [stdout |-> text, stderr |-> <<>>, should_exit |-> FALSE]

\* CommandResult::with_stderr
CommandResult_with_stderr(text) ==
    [stdout |-> <<>>, stderr |-> text, should_exit |-> FALSE]

\* CommandResult::exit
CommandResult_exit == [stdout |-> <<>>, stderr |-> <<>>, should_exit |-> TRUE]

name_help == <<"h", "e", "l", "p">>
name_exit == <<"e", "x", "i", "t">>
name_echo == <<"e", "c", "h", "o">>
name_pwd == <<"p", "w", "d">>
name_cd == <<"c", "d">>
name_mkdir == <<"m", "k", "d", "i", "r">>
name_cat == <<"c", "a", "t">>
name_cp == <<"c", "p">>
name_mv == <<"m", "v">>
name_rm == <<"r", "m">>
name_ls == <<"l", "s">>

\* The flags execute looks for: "--help" and "-h"
flag_long_help == <<DASH, DASH, "h", "e", "l", "p">>
flag_short_help == <<DASH, "h">>

\* command_list: the registered names, each with its help text and
\* require_args; the callback of a command goes by the command's name
cmds ==
    [n \in {name_exit, name_echo, name_pwd, name_cd, name_mkdir, name_cat,
            name_cp, name_mv, name_rm, name_ls} |->
        [help |-> n \o <<" - ...">>,
         require_args |-> n \in {name_mkdir, name_cp, name_mv, name_rm}]]

\* `flags.iter().any(|flag| flag == "--help" || flag == "-h")`
has_help_flag(fl) ==
    \E i \in 1..Len(fl) : fl[i] = flag_long_help \/ fl[i] = flag_short_help

\* Faulty variant: the operand is asked for before the help flag is looked at
execute_branch_operand_first(cmd_name, fl, ar) ==
    IF cmd_name = name_help THEN "help"
    ELSE IF cmd_name \notin DOMAIN cmds THEN "not_found"
    ELSE IF cmds[cmd_name].require_args /\ ar = <<>> THEN "missing_operand"
    ELSE IF has_help_flag(fl) THEN "usage"
    ELSE "callback"

\* execute: the early returns in their order, and the callback last
execute_branch(cmd_name, fl, ar) ==
    IF cmd_name = name_help THEN "help"
    ELSE IF cmd_name \notin DOMAIN cmds THEN "not_found"
    ELSE IF has_help_flag(fl) THEN "usage"
    ELSE IF cmds[cmd_name].require_args /\ ar = <<>> THEN "missing_operand"
    ELSE "callback"

\* The text listing the commands
help_text == <<"Available commands:\n", "  name - help\n">>

\* "0-shell: {}: command not found"
not_found_text(cmd_name) ==
    <<"0-shell: ">> \o cmd_name \o <<": command not found">>

\* "Usage: {}\n"
usage_text(cmd_name) == <<"Usage: ">> \o cmds[cmd_name].help \o <<"\n">>

\* "{}: missing operand.\nTry 'help' or '{} --help' for more information."
missing_operand_text(cmd_name) ==
    cmd_name \o <<": missing operand.\nTry 'help' or '">> \o cmd_name
             \o <<" --help' for more information.">>

\* What a callback can return.  exit_callback returns CommandResult::exit();
\* every other callback builds its result from the file system and its
\* arguments and never sets should_exit: any stdout and stderr, empty or not
callback_results(cmd_name, fl, ar) ==
    IF cmd_name = name_exit THEN {CommandResult_exit}
    ELSE {[stdout |-> o, stderr |-> e, should_exit |-> FALSE] :
            o \in {<<>>, <<"output\n">>}, e \in {<<>>, <<"error">>}}

\* execute: the results the call can return
execute(cmd_name, fl, ar) ==
    LET branch == execute_branch(cmd_name, fl, ar) IN
    IF branch = "help" THEN {CommandResult_with_stdout(help_text)}
    ELSE IF branch = "not_found"
         THEN {CommandResult_with_stderr(not_found_text(cmd_name))}
    ELSE IF branch = "usage"
         THEN {CommandResult_with_stdout(usage_text(cmd_name))}
    ELSE IF branch = "missing_operand"
         THEN {CommandResult_with_stderr(missing_operand_text(cmd_name))}
    ELSE callback_results(cmd_name, fl, ar)

----------------------------------------------------------------------------
(* execute, one call at a time *)

MaxFlags == 2
MaxOperands == 3

\* A name that is neither "help" nor registered
name_unknown == <<"n", "o">>

ExecNames == DOMAIN cmds \cup {name_help, name_unknown}
ExecFlags == {flag_long_help, flag_short_help, <<DASH, "r">>}
ExecOperands == {<<"a">>}

InitExecute ==
    /\ pc = "exec_call"
    /\ input \in [cmd_name : ExecNames,
                  flags : Strings(ExecFlags, MaxFlags),
                  args : Strings(ExecOperands, MaxOperands)]
    /\ IdleTok
    /\ IdleSep
    /\ IdleLine
    /\ IdleExec /\ IdleRm /\ IdleRepl

\* An early return of execute: the branch taken and the result it builds
ExecuteReturn(branch) ==
    /\ pc = "exec_call"
    /\ execute_branch(input.cmd_name, input.flags, input.args) = branch
    /\ result' \in execute(input.cmd_name, input.flags, input.args)
    /\ pc' = "exec_done"
    /\ UNCHANGED <<input, invoked, tokVars, sepVars, lineVars, rmVars, replVars>>

\* 1. `if cmd_name == "help"`
ExecuteHelp == ExecuteReturn("help")

\* 2. `self.cmds.get(&cmd_name)` is None
ExecuteNotFound == ExecuteReturn("not_found")

\* 3. a flag is "--help" or "-h"
ExecuteUsage == ExecuteReturn("usage")

\* 4. `cmd.require_args && args.is_empty()`
ExecuteMissingOperand == ExecuteReturn("missing_operand")

\* 5. `(cmd.callback)(flags, args)`
ExecuteCallback ==
    /\ pc = "exec_call"
    /\ execute_branch(input.cmd_name, input.flags, input.args) = "callback"
    /\ result' \in execute(input.cmd_name, input.flags, input.args)
    /\ invoked' = Append(invoked, input.cmd_name)
    /\ pc' = "exec_done"
    /\ UNCHANGED <<input, tokVars, sepVars, lineVars, rmVars, replVars>>

NextExecute ==
    \/ ExecuteHelp
    \/ ExecuteNotFound
    \/ ExecuteUsage
    \/ ExecuteMissingOperand
    \/ ExecuteCallback

SpecExecute == InitExecute /\ [][NextExecute]_vars

\* C13: execute decides in a fixed order.  The name "help" returns the command
\* list whatever the flags and args; otherwise an unregistered name returns
\* "command not found"; otherwise a flag "--help" or "-h" returns the usage
\* text; otherwise a command registered with require_args and called without
\* args returns "missing operand"; and a callback has run only if none of
\* these applies: never for "help" or an unknown name, never with a help flag
\* present, never with a required operand missing.
C13_ExecuteDecidesInOrder ==
    LET n == input.cmd_name
        help_flag == \E i \in 1..Len(input.flags) :
                        input.flags[i] \in {flag_long_help, flag_short_help}
        registered == n \in {name_exit, name_echo, name_pwd, name_cd,
                             name_mkdir, name_cat, name_cp, name_mv, name_rm,
                             name_ls}
        operand_missing == n \in {name_mkdir, name_cp, name_mv, name_rm}
                           /\ input.args = <<>>
    IN  /\ pc = "exec_done" =>
            IF n = name_help
            THEN result = CommandResult_with_stdout(help_text)
            ELSE IF ~registered
            THEN result = CommandResult_with_stderr(not_found_text(n))
            ELSE IF help_flag
            THEN result = CommandResult_with_stdout(usage_text(n))
            ELSE IF operand_missing
            THEN result = CommandResult_with_stderr(missing_operand_text(n))
            ELSE invoked = <<n>>
        /\ invoked # <<>> =>
            /\ invoked = <<n>>
            /\ n # name_help
            /\ registered
            /\ ~help_flag
            /\ ~operand_missing

\* `help --help` with an operand lists the commands; no callback has run
C13_Witness ==
    /\ pc = "exec_done"
    /\ input = [cmd_name |-> name_help, flags |-> <<flag_long_help>>,
                args |-> << <<"a">> >>]
    /\ result = CommandResult_with_stdout(help_text)
    /\ invoked = <<>>

----------------------------------------------------------------------------
(* rm_callback over a small file system (command.rs) *)

\* The paths named on the command line: a path `f`, a path `d` and a path
\* `d/f` below it.  An entry is "none" (no such path), "file" or "dir".
RmPaths == {"f", "d", "d/f"}

\* The paths strictly below a path
Below(p) == IF p = "d" THEN {"d/f"} ELSE {}

\* The file systems: an entry has a directory above it
FileSystems ==
    {t \in [RmPaths -> {"none", "file", "dir"}] :
        /\ t["d/f"] # "none" => t["d"] = "dir"
        /\ t["d/f"] # "dir"}

\* `path.exists()`
exists(t, p) == t[p] # "none"

\* `path.is_dir()`
is_dir(t, p) == t[p] = "dir"

\* Faulty variant: any flag makes the removal recursive
is_recursive_any_flag(fl) == fl # <<>>

\* `flags.iter().any(|f| f == "-r" || f == "-R")`
is_recursive(fl) ==
    \E i \in 1..Len(fl) : fl[i] = <<DASH, "r">> \/ fl[i] = <<DASH, "R">>

\* The file system with the paths of a set gone
without(t, gone) == [q \in RmPaths |-> IF q \in gone THEN "none" ELSE t[q]]

\* fs::remove_file: the file is gone, or the call fails and nothing changes
remove_file(t, p) ==
    {[fs |-> without(t, {p}), err |-> <<>>],
     [fs |-> t, err |-> <<"rm: ", p, ": ", "io error">>]}

\* fs::remove_dir_all: the directory and all below it are gone, or the call
\* fails after removing some of what is below it
remove_dir_all(t, p) ==
    {[fs |-> without(t, {p} \cup Below(p)), err |-> <<>>]}
    \cup {[fs |-> without(t, gone), err |-> <<"rm: ", p, ": ", "io error">>] :
            gone \in SUBSET Below(p)}

\* The body of the for loop up to `remove_res`: the ways it can end for one
\* path, each with the file system it leaves and the error text, if any
remove_res(t, recursive, p) ==
    IF ~exists(t, p)
    THEN {[fs |-> t,
           err |-> <<"rm: cannot remove '", p, "': No such file or directory">>]}
    ELSE IF is_dir(t, p)
    THEN IF recursive
         THEN remove_dir_all(t, p)
         ELSE {[fs |-> t,
                err |-> <<"rm: cannot remove '", p, "': Is a directory">>]}
    ELSE remove_file(t, p)

\* `if let Err(e) = remove_res { ... }`: the error joins stderr after a newline
push_err(res, err) ==
    IF err = <<>> THEN res
    ELSE [res EXCEPT !.stderr =
            (IF res.stderr # <<>> THEN res.stderr \o <<"\n">> ELSE res.stderr)
            \o err]

RmFlags == {<<DASH, "r">>, <<DASH, "R">>, <<DASH, "f">>}

InitRm ==
    /\ pc = "rm_loop"
    /\ input \in [flags : Strings(RmFlags, MaxFlags),
                  args : Strings(RmPaths, MaxOperands)]
    /\ fs \in FileSystems
    /\ paths = input.args
    /\ result = CommandResult_new
    /\ invoked = <<>>
    /\ IdleTok
    /\ IdleSep
    /\ IdleLine
    /\ IdleRepl

\* One turn of `for path_str in args`
RmPath ==
    /\ pc = "rm_loop"
    /\ paths # <<>>
    /\ \E o \in remove_res(fs, is_recursive(input.flags), Head(paths)) :
        /\ fs' = o.fs
        /\ result' = push_err(result, o.err)
    /\ paths' = Tail(paths)
    /\ UNCHANGED <<pc, input, invoked, tokVars, sepVars, lineVars, replVars>>

\* The loop is over: `result` is returned
RmReturn ==
    /\ pc = "rm_loop"
    /\ paths = <<>>
    /\ pc' = "rm_done"
    /\ UNCHANGED <<input, tokVars, sepVars, lineVars, cmdVars>>

NextRm == RmPath \/ RmReturn

SpecRm == InitRm /\ [][NextRm]_vars

\* The text of stderr once one more error message has joined it
WithError(text, msg) == IF text = <<>> THEN msg ELSE text \o <<"\n">> \o msg

\* C14: in each turn of the loop, on the path p at the head of the remaining
\* arguments: the file system changes only if p exists and is a non-directory
\* or the flags hold "-r" or "-R"; a missing p, and a directory p without such
\* a flag, add their error to stderr and leave the file system as it was; a
\* turn that adds no error has removed p; and in every case the loop moves on
\* to the next argument, returning only when none is left.
C14_RmRemovesOnlyWhatItMay ==
    /\ [](/\ pc = "rm_done" => paths = <<>>
          /\ \E k \in 0..Len(input.args) :
                paths = SubSeq(input.args, k + 1, Len(input.args)))
    /\ [][(pc = "rm_loop" /\ paths # <<>>) =>
            LET p == Head(paths)
                rec == \E i \in 1..Len(input.flags) :
                          input.flags[i] \in {<<DASH, "r">>, <<DASH, "R">>}
            IN  /\ paths' = Tail(paths)
                /\ pc' = "rm_loop"
                /\ fs' # fs => fs[p] # "none" /\ (fs[p] # "dir" \/ rec)
                /\ fs[p] = "none" =>
                    /\ fs' = fs
                    /\ result'.stderr = WithError(result.stderr,
                         <<"rm: cannot remove '", p,
                           "': No such file or directory">>)
                /\ (fs[p] = "dir" /\ ~rec) =>
                    /\ fs' = fs
                    /\ result'.stderr = WithError(result.stderr,
                         <<"rm: cannot remove '", p, "': Is a directory">>)
                /\ result'.stderr = result.stderr => fs'[p] = "none"
                /\ result'.stdout = <<>> /\ ~result'.should_exit
         ]_vars

\* `rm d f d/f` where d is a directory holding the file d/f and f is missing:
\* two errors, and d/f, the last argument, is removed all the same
C14_Witness ==
    /\ pc = "rm_done"
    /\ input = [flags |-> <<>>, args |-> <<"d", "f", "d/f">>]
    /\ fs = [q \in RmPaths |-> IF q = "d" THEN "dir" ELSE "none"]
    /\ result.stderr = <<"rm: cannot remove '", "d", "': Is a directory", "\n",
                         "rm: cannot remove '", "f",
                         "': No such file or directory">>

----------------------------------------------------------------------------
(* The read-eval-print loop (main.rs) *)

MaxLines == 2
MaxWords == 3

\* The words a line is written with
ReplWords == {name_exit, name_echo, <<"a">>, flag_short_help}

\* The texts of k words, each but the first after a blank or a semicolon
RECURSIVE Phrases(_)
Phrases(k) ==
    IF k = 0 THEN {<<>>}
    ELSE IF k = 1 THEN ReplWords
    ELSE {t \o <<c>> \o w : t \in Phrases(k - 1), c \in {SP, SEMI},
                            w \in ReplWords}

\* What read_line can store: a text and the newline that ends it
ReplLines == {t \o <<NL>> : t \in UNION {Phrases(k) : k \in 0..MaxWords}}

InitRepl ==
    /\ pc = "repl_prompt"
    /\ input = <<>>
    /\ IdleTok
    /\ IdleSep
    /\ IdleLine
    /\ IdleExec /\ IdleRm /\ IdleRepl

\* `stdout.write_all(prompt.as_bytes())?; stdout.flush()?;`
ReplPrompt ==
    /\ pc = "repl_prompt"
    /\ \E ok \in BOOLEAN :
        pc' = IF ok THEN "repl_read" ELSE "repl_io_error"
    /\ events' = <<>>
    /\ UNCHANGED <<input, pending, lines_read, tokVars, sepVars, lineVars,
                   execVars, rmVars>>

\* `io::stdin().read_line(&mut line)?` fails
ReplReadError ==
    /\ pc = "repl_read"
    /\ pc' = "repl_io_error"
    /\ UNCHANGED <<input, tokVars, sepVars, lineVars, cmdVars>>

\* `if bytes_read == 0 { break; }`
ReplEndOfInput ==
    /\ pc = "repl_read"
    /\ pc' = "repl_eof"
    /\ UNCHANGED <<input, tokVars, sepVars, lineVars, cmdVars>>

\* A line is read: `parse_line(line.trim_end())`
ReplReadLine ==
    /\ pc = "repl_read"
    /\ lines_read < MaxLines
    /\ \E line \in ReplLines :
        LET parsed == parse_line(trim_end(line)) IN
        /\ input' = line
        /\ pending' = parsed.some
        /\ pc' = IF parsed.panicked THEN "parse_panic" ELSE "repl_dispatch"
    /\ lines_read' = lines_read + 1
    /\ UNCHANGED <<events, tokVars, sepVars, lineVars, execVars, rmVars>>

\* Faulty variant: the loop does not look at should_exit
after_execute_never_exit(r) == "repl_stdout"

\* `if result.should_exit { return Ok(()); }`
after_execute(r) == IF r.should_exit THEN "repl_exit" ELSE "repl_stdout"

\* `for call in calls { let result = cmds.execute(...); ...`
ReplDispatch ==
    /\ pc = "repl_dispatch"
    /\ pending # <<>>
    /\ LET call == Head(pending) IN
       \E r \in execute(call.name, call.flags, call.args) :
        /\ result' = r
        /\ events' = Append(events, [kind |-> "execute", call |-> call,
                                     result |-> r])
        /\ pc' = after_execute(r)
    /\ pending' = Tail(pending)
    /\ UNCHANGED <<input, invoked, lines_read, tokVars, sepVars, lineVars,
                   rmVars>>

\* The for loop is over: `line` is dropped, back to the top of `loop`
ReplNextLine ==
    /\ pc = "repl_dispatch"
    /\ pending = <<>>
    /\ input' = <<>>
    /\ pc' = "repl_prompt"
    /\ UNCHANGED <<tokVars, sepVars, lineVars, cmdVars>>

\* `if !result.stdout.is_empty() { stdout.write_all(..)?; stdout.flush()?; }`
ReplStdout ==
    /\ pc = "repl_stdout"
    /\ IF result.stdout = <<>>
       THEN pc' = "repl_stderr" /\ UNCHANGED events
       ELSE \E ok \in BOOLEAN :
            IF ok
            THEN /\ events' = Append(events, [kind |-> "stdout",
                                              text |-> result.stdout])
                 /\ pc' = "repl_stderr"
            ELSE pc' = "repl_io_error" /\ UNCHANGED events
    /\ UNCHANGED <<input, pending, lines_read, tokVars, sepVars, lineVars,
                   execVars, rmVars>>

\* `if !result.stderr.is_empty() { stderr.write_all(format!("{}\n", ..))?; .. }`
\* and the end of the for body, where `result` is dropped
ReplStderr ==
    /\ pc = "repl_stderr"
    /\ IF result.stderr = <<>>
       THEN pc' = "repl_dispatch" /\ UNCHANGED events
       ELSE \E ok \in BOOLEAN :
            IF ok
            THEN /\ events' = Append(events, [kind |-> "stderr",
                                 text |-> result.stderr \o <<NL>>])
                 /\ pc' = "repl_dispatch"
            ELSE pc' = "repl_io_error" /\ UNCHANGED events
    /\ result' = IF pc' = "repl_dispatch" THEN CommandResult_new ELSE result
    /\ UNCHANGED <<input, pending, lines_read, invoked, tokVars, sepVars,
                   lineVars, rmVars>>

NextRepl ==
    \/ ReplPrompt
    \/ ReplReadError
    \/ ReplEndOfInput
    \/ ReplReadLine
    \/ ReplDispatch
    \/ ReplNextLine
    \/ ReplStdout
    \/ ReplStderr

SpecRepl == InitRepl /\ [][NextRepl]_vars

----------------------------------------------------------------------------
(* C15: order of execution and end of the loop *)

\* What the loop writes for a result: stdout if not empty, then stderr and a
\* newline if not empty
Written(r) ==
    (IF r.stdout = <<>> THEN <<>>
     ELSE <<[kind |-> "stdout", text |-> r.stdout]>>)
    \o (IF r.stderr = <<>> THEN <<>>
        ELSE <<[kind |-> "stderr", text |-> r.stderr \o <<NL>>]>>)

\* The positions of the executions in the log
Executions(ev) == {i \in 1..Len(ev) : ev[i].kind = "execute"}

\* The calls executed, in the order of the log
ExecutedCalls(ev) ==
    LET ex == SelectSeq(ev, LAMBDA e : e.kind = "execute") IN
    [i \in 1..Len(ex) |-> ex[i].call]

\* The loop is working on the line it read
OnLine == pc \in {"repl_dispatch", "repl_stdout", "repl_stderr", "repl_exit"}

\* The calls run in parse order: those executed, followed by those the loop
\* has yet to dispatch, are the calls of the line
InParseOrder ==
    OnLine => ExecutedCalls(events) \o pending
                  = parse_line(trim_end(input)).some

\* Between two executions the log holds exactly what the loop writes for the
\* result of the first one; nothing is written before the first execution
WritesBeforeNextCall ==
    LET ex == Executions(events) IN
    /\ events # <<>> => 1 \in ex
    /\ \A j \in ex : \A i \in ex :
        (j < i /\ \A m \in ex : ~(j < m /\ m < i)) =>
            SubSeq(events, j + 1, i - 1) = Written(events[j].result)

\* A result with should_exit is the last thing the loop handles: nothing is
\* written or executed after it and the shell is at its `return Ok(())`
ExitAtOnce ==
    /\ \A i \in Executions(events) :
        events[i].result.should_exit => i = Len(events) /\ pc = "repl_exit"
    /\ pc = "repl_exit" =>
        /\ events # <<>>
        /\ events[Len(events)].kind = "execute"
        /\ events[Len(events)].result = CommandResult_exit

\* The shell has left `loop`
LoopEnded ==
    pc \notin {"repl_prompt", "repl_read", "repl_dispatch", "repl_stdout",
               "repl_stderr"}

\* C15 as stated: calls run in parse order, each result is written before the
\* next call runs, a should_exit result ends the shell at once with nothing
\* written, executed or read after it, and otherwise the loop ends only at
\* end of input.
C15_AsStated ==
    /\ [](/\ InParseOrder
          /\ WritesBeforeNextCall
          /\ ExitAtOnce
          /\ LoopEnded => pc \in {"repl_exit", "repl_eof"})
    /\ [][pc # "repl_exit"]_vars

\* C15, amended: calls run in parse order, each result is written before the
\* next call runs, a should_exit result ends the shell at once with nothing
\* written, executed or read after it, and otherwise the loop ends only at
\* end of input or when writing the prompt, reading the line or writing a
\* result fails: main then returns the error of that read or write.
C15_OrderExitAndEnd ==
    /\ [](/\ InParseOrder
          /\ WritesBeforeNextCall
          /\ ExitAtOnce
          /\ LoopEnded => pc \in {"repl_exit", "repl_eof", "repl_io_error"}
          /\ pc = "repl_eof" => pending = <<>> /\ events = <<>>)
    /\ [][pc \notin {"repl_exit", "repl_eof", "repl_io_error"}]_vars

\* `a;exit a`: the unknown command's error is written, then exit ends the
\* shell with its own call as the last entry of the log
C15_Witness ==
    /\ pc = "repl_exit"
    /\ input = <<"a", SEMI>> \o name_exit \o <<SP, "a", NL>>
    /\ pending = <<>>
    /\ Len(events) = 3
    /\ events[1].kind = "execute" /\ events[1].call.name = <<"a">>
    /\ events[2] = [kind |-> "stderr",
                    text |-> not_found_text(<<"a">>) \o <<NL>>]
    /\ events[3].kind = "execute" /\ events[3].result = CommandResult_exit

====
